---- MODULE Spec2Model ----
(***************************************************************************)
(* Model of src/src/app.ts: a socket.io server that, on every timer tick,  *)
(* queries six system metrics in parallel and broadcasts a snapshot to the *)
(* connected sockets, and that answers every new connection with one       *)
(* 'vm-info' event computed from two identity queries.                     *)
(*                                                                         *)
(* The program runs on the Node.js event loop: every callback runs to its  *)
(* next await without interruption.  An await on Promise.all resumes in a  *)
(* microtask as soon as Promise.all settles, before any other I/O or timer *)
(* callback runs, so "the query that settles Promise.all" and "the rest of *)
(* the async function" form one step of the model.                         *)
(*                                                                         *)
(* A query that resolves yields a value of the shape the code reads        *)
(* (numbers, arrays, a process list), so the synchronous code after the    *)
(* await does not throw; a query that fails rejects its promise.           *)
(***************************************************************************)
EXTENDS Integers, Sequences, FiniteSets

\* ---------------------------------------------------------------- bounds
\* Number of timer ticks explored (the interval timer itself never stops).
MaxTicks == 2
\* Number of connections accepted during a run.
MaxSockets == 2
\* Number of cycles that may have unsettled queries at the same time.
MaxInFlight == 2
\* Number of queries of one cycle that the environment lets reject.
MaxRejects == 1

Ticks == 1..MaxTicks
Sockets == 1..MaxSockets

\* ------------------------------------------------------------- constants
\* The six metric queries of one cycle, in the order of the Promise.all array.
StatQueries == <<"currentLoad", "cpuTemperature", "mem", "fsSize", "networkStats", "processes">>
\* The two identity queries of one connection, in the order of the array.
IdQueries == <<"osInfo", "networkInterfaces">>

RangeOf(seq) == {seq[i] : i \in 1..Len(seq)}
StatQ == RangeOf(StatQueries)
IdQ == RangeOf(IdQueries)

\* A promise is not yet created ("none"), pending, fulfilled ("ok") or
\* rejected ("fail").
Outcomes == {"ok", "fail"}

VARIABLES
    timerOn,    \* the setInterval timer is armed
    ticks,      \* number of ticks fired so far
    res,        \* res[k][q]: state of query q of the cycle of tick k
    cyc,        \* cyc[k]: position of the async callback of tick k
    reason,     \* reason[k]: the rejected query handed to the catch block
    nconn,      \* number of connections accepted so far
    conn,       \* conn[s]: transport state of socket s
    hpc,        \* hpc[s]: position of the connection handler of socket s
    idres,      \* idres[s][q]: state of identity query q of socket s
    sentTo,     \* sentTo[s]: events the server emitted to socket s, in order
    raw,        \* the values the awaited queries of one callback resolved with
    snap        \* the payloads that callback emitted

cycVars == <<timerOn, ticks, res, cyc, reason>>
sockVars == <<nconn, conn, hpc, idres>>
aggVars == <<raw, snap>>
vars == <<timerOn, ticks, res, cyc, reason, nconn, conn, hpc, idres, sentTo,
          raw, snap>>

\* ---------------------------------------------------------------- events
VmInfo == [ev |-> "vm-info", tick |-> 0]
Stats(k) == [ev |-> "stats", tick |-> k]
Processes(k) == [ev |-> "processes", tick |-> k]

\* ------------------------------------------------------------ Promise.all
Pending(r) == {q \in DOMAIN r : r[q] = "pending"}
Failed(r) == {q \in DOMAIN r : r[q] = "fail"}

\* Promise.allSettled read as a success: fulfilled once nothing is pending.
PromiseAllSettled(r) ==
    IF Pending(r) = {} THEN "fulfilled" ELSE "pending"

\* Promise.all(array): rejected as soon as one element is rejected,
\* fulfilled when every element is fulfilled, pending otherwise.
PromiseAll(r) ==
    IF Failed(r) # {} THEN "rejected"
    ELSE IF Pending(r) = {} THEN "fulfilled"
    ELSE "pending"

\* The first element of the array `order` that is in the set S.
FirstIn(order, S) ==
    order[CHOOSE i \in 1..Len(order) :
            /\ order[i] \in S
            /\ \A j \in 1..(i - 1) : order[j] \notin S]

\* ------------------------------------------------------------------ Init
Init ==
    /\ timerOn = TRUE
    /\ ticks = 0
    /\ res = [k \in Ticks |-> [q \in StatQ |-> "none"]]
    /\ cyc = [k \in Ticks |-> "idle"]
    /\ reason = [k \in Ticks |-> "none"]
    /\ nconn = 0
    /\ conn = [s \in Sockets |-> "new"]
    /\ hpc = [s \in Sockets |-> "idle"]
    /\ idres = [s \in Sockets |-> [q \in IdQ |-> "none"]]
    /\ sentTo = [s \in Sockets |-> <<>>]
    /\ raw = [kind |-> "none"]
    /\ snap = [kind |-> "none"]

\* ----------------------------------------------------------- tick cycle
InFlight == {k \in Ticks : Pending(res[k]) # {}}

\* A timer callback that abandons the cycles still waiting for their queries.
TickCancelsPrevious ==
    /\ timerOn
    /\ ticks < MaxTicks
    /\ Cardinality(InFlight) < MaxInFlight
    /\ ticks' = ticks + 1
    /\ res' = [res EXCEPT ![ticks + 1] = [q \in StatQ |-> "pending"]]
    /\ cyc' = [k \in Ticks |->
                IF k = ticks + 1 THEN "await"
                ELSE IF cyc[k] = "await" THEN "cancelled"
                ELSE cyc[k]]
    /\ UNCHANGED <<timerOn, reason, sockVars, sentTo, aggVars>>

\* The timer fires: the async callback starts and issues the six queries
\* together, then suspends at the await.
Tick ==
    /\ timerOn
    /\ ticks < MaxTicks
    /\ Cardinality(InFlight) < MaxInFlight
    /\ ticks' = ticks + 1
    /\ res' = [res EXCEPT ![ticks + 1] = [q \in StatQ |-> "pending"]]
    /\ cyc' = [cyc EXCEPT ![ticks + 1] = "await"]
    /\ UNCHANGED <<timerOn, reason, sockVars, sentTo, aggVars>>

\* A broadcast that reaches only the sockets whose handler has finished.
RecipientsOnboarded == {s \in Sockets : conn[s] = "open" /\ hpc[s] = "done"}

\* io.emit: the sockets of the namespace, that is the connected ones.
Recipients == {s \in Sockets : conn[s] = "open"}

\* A publish that emits 'processes' ahead of 'stats'.
CyclePublishSwapped(k) ==
    /\ cyc' = [cyc EXCEPT ![k] = "published"]
    /\ sentTo' = [s \in Sockets |->
                    IF s \in Recipients
                    THEN sentTo[s] \o <<Processes(k), Stats(k)>>
                    ELSE sentTo[s]]
    /\ UNCHANGED <<timerOn, reason>>

\* The rest of the try block: build the snapshot and broadcast it.
CyclePublish(k) ==
    /\ cyc' = [cyc EXCEPT ![k] = "published"]
    /\ sentTo' = [s \in Sockets |->
                    IF s \in Recipients
                    THEN sentTo[s] \o <<Stats(k), Processes(k)>>
                    ELSE sentTo[s]]
    /\ UNCHANGED <<timerOn, reason>>

\* A catch block that also stops the timer (clearInterval on error).
CycleCatchStopsTimer(k, why) ==
    /\ cyc' = [cyc EXCEPT ![k] = "skipped"]
    /\ reason' = [reason EXCEPT ![k] = why]
    /\ timerOn' = FALSE
    /\ UNCHANGED sentTo

\* The catch block: log the rejection, nothing else.
CycleCatch(k, why) ==
    /\ cyc' = [cyc EXCEPT ![k] = "skipped"]
    /\ reason' = [reason EXCEPT ![k] = why]
    /\ UNCHANGED <<timerOn, sentTo>>

\* Queries of cycle k settle: out maps the settling queries to their outcome.
\* When several settle in the same burst they do so in array order, so the
\* first rejected one is the rejection of Promise.all.
Settle(k, out) ==
    /\ DOMAIN out # {}
    /\ DOMAIN out \subseteq Pending(res[k])
    /\ LET r == [q \in StatQ |-> IF q \in DOMAIN out THEN out[q] ELSE res[k][q]]
       IN  /\ Cardinality(Failed(r)) <= MaxRejects
           /\ res' = [res EXCEPT ![k] = r]
           /\ IF cyc[k] = "await" /\ PromiseAll(r) = "fulfilled"
              THEN CyclePublish(k)
              ELSE IF cyc[k] = "await" /\ PromiseAll(r) = "rejected"
              THEN CycleCatch(k, FirstIn(StatQueries, Failed(r)))
              ELSE UNCHANGED <<timerOn, cyc, reason, sentTo>>
    /\ UNCHANGED <<ticks, sockVars, aggVars>>

\* ------------------------------------------------------------ connections
\* A connection that is also sent the snapshots published so far.
ConnectReplay ==
    /\ nconn < MaxSockets
    /\ nconn' = nconn + 1
    /\ conn' = [conn EXCEPT ![nconn + 1] = "open"]
    /\ hpc' = [hpc EXCEPT ![nconn + 1] = "await"]
    /\ idres' = [idres EXCEPT ![nconn + 1] = [q \in IdQ |-> "pending"]]
    /\ sentTo' = [sentTo EXCEPT ![nconn + 1] =
                    IF \E k \in Ticks : cyc[k] = "published"
                    THEN LET k == CHOOSE j \in Ticks : cyc[j] = "published"
                         IN  <<Stats(k), Processes(k)>>
                    ELSE <<>>]
    /\ UNCHANGED <<cycVars, aggVars>>

\* A client connects: the socket joins the namespace and the handler issues
\* the two identity queries, then suspends at the await.
Connect ==
    /\ nconn < MaxSockets
    /\ nconn' = nconn + 1
    /\ conn' = [conn EXCEPT ![nconn + 1] = "open"]
    /\ hpc' = [hpc EXCEPT ![nconn + 1] = "await"]
    /\ idres' = [idres EXCEPT ![nconn + 1] = [q \in IdQ |-> "pending"]]
    /\ UNCHANGED <<cycVars, sentTo, aggVars>>

\* A disconnect that stops the timer when the last subscriber leaves.
DisconnectStopsTimer(s) ==
    /\ conn[s] = "open"
    /\ conn' = [conn EXCEPT ![s] = "closed"]
    /\ timerOn' = (\E t \in Sockets \ {s} : conn[t] = "open")
    /\ UNCHANGED <<ticks, res, cyc, reason, nconn, hpc, idres, sentTo, aggVars>>

\* The client goes away: the socket leaves the namespace.  The 'disconnect'
\* listener, when already registered, only logs.
Disconnect(s) ==
    /\ conn[s] = "open"
    /\ conn' = [conn EXCEPT ![s] = "closed"]
    /\ UNCHANGED <<cycVars, nconn, hpc, idres, sentTo, aggVars>>

\* io.emit used in place of socket.emit: every connected socket.
VmInfoBroadcast(s) == Recipients \cup {s}

\* socket.emit: the one socket of the handler.
VmInfoTargets(s) == {s}

\* The rest of the try block of the handler: emit 'vm-info', then register
\* the 'disconnect' listener.  The code does not look at the socket's state.
HandlerEmit(s) ==
    /\ hpc' = [hpc EXCEPT ![s] = "done"]
    /\ sentTo' = [t \in Sockets |->
                    IF t \in VmInfoTargets(s)
                    THEN Append(sentTo[t], VmInfo)
                    ELSE sentTo[t]]
    /\ UNCHANGED <<nconn, conn>>

\* A catch block that drops the connection whose identity query failed.
HandlerCatchDisconnects(s) ==
    /\ hpc' = [hpc EXCEPT ![s] = "done"]
    /\ conn' = [conn EXCEPT ![s] = "closed"]
    /\ UNCHANGED <<nconn, sentTo>>

\* The catch block of the handler: log, then register the listener.
HandlerCatch(s) ==
    /\ hpc' = [hpc EXCEPT ![s] = "done"]
    /\ UNCHANGED <<nconn, conn, sentTo>>

\* Identity query q of socket s settles with outcome o.
IdSettle(s, q, o) ==
    /\ idres[s][q] = "pending"
    /\ LET r == [idres[s] EXCEPT ![q] = o]
       IN  /\ idres' = [idres EXCEPT ![s] = r]
           /\ IF hpc[s] = "await" /\ PromiseAll(r) = "fulfilled"
              THEN HandlerEmit(s)
              ELSE IF hpc[s] = "await" /\ PromiseAll(r) = "rejected"
              THEN HandlerCatch(s)
              ELSE UNCHANGED <<nconn, conn, hpc, sentTo>>
    /\ UNCHANGED <<cycVars, aggVars>>

\* --------------------------------------------------------- specifications
\* Partial functions from the pending queries of cycle k to outcomes.
Settlements(S) == UNION {[D -> Outcomes] : D \in S}

\* All pending queries of a cycle settle back to back.
Bursts(k) == Settlements({Pending(res[k])})
\* One query settles at a time.
Singles(k) == Settlements({{q} : q \in Pending(res[k])})

\* Subscribers and cycles interleaved; the queries of a cycle settle in one
\* burst.
Next ==
    \/ Tick
    \/ \E k \in Ticks : \E out \in Bursts(k) : Settle(k, out)
    \/ Connect
    \/ \E s \in Sockets : Disconnect(s)
    \/ \E s \in Sockets, q \in IdQ, o \in Outcomes : IdSettle(s, q, o)

Spec == Init /\ [][Next]_vars

\* The cycles in full detail: every query settles on its own, subscribers
\* join and leave, their identity queries stay pending.
NextCycle ==
    \/ Tick
    \/ \E k \in Ticks : \E out \in Singles(k) : Settle(k, out)
    \/ Connect
    \/ \E s \in Sockets : Disconnect(s)

SpecCycle == Init /\ [][NextCycle]_vars

\* The cycles in full detail, with one subscriber joining, under the
\* assumption that every query settles: a pending query is an I/O request
\* that the platform completes.
NextLive ==
    \/ Tick
    \/ \E k \in Ticks : \E out \in Singles(k) : Settle(k, out)
    \/ nconn = 0 /\ Connect

\* Some pending query of cycle k settles.
QuerySettles(k) == \E out \in Singles(k) : Settle(k, out)

SpecLive ==
    /\ Init
    /\ [][NextLive]_vars
    /\ \A k \in Ticks : WF_vars(QuerySettles(k))

\* ------------------------------------------------------- the aggregation
\* What the callbacks compute from the values their queries resolved with.
\* Units: byte counts of memory and volumes are given in MiB, so that the
\* division by 1024 ** 3 is a division by MiBPerGiB; percentages are given
\* in sixteenths of a percent, which a double holds exactly; every figure
\* that went through toFixed(1) is kept as an integer number of tenths.

\* Volumes, interfaces and processes one query reports at most.
MaxVolumes == 3
MaxIfaces == 2
MaxProcs == 6
MaxNics == 3

MiBPerGiB == 1024
TopN == 5

\* A value read from a source object: a number, or no usable number.
Undefined == [t |-> "undefined", v |-> 0]
Null == [t |-> "null", v |-> 0]
NaN == [t |-> "NaN", v |-> 0]
Num(n) == [t |-> "number", v |-> n]

\* x || d on such a value, d a number.
Falsy(x) == x.t # "number" \/ x.v = 0
OrElse(x, d) == IF Falsy(x) THEN d ELSE x.v

\* parseFloat((m / 1024 ** 3).toFixed(1)) in tenths, m in MiB: the quotient
\* is exact, and toFixed takes the larger neighbour on an exact tie.
GiBTenths(m) == (10 * m + MiBPerGiB \div 2) \div MiBPerGiB

\* parseFloat(x.toFixed(1)) in tenths, x given in sixteenths.
ToFixed1(x) == (5 * x + 4) \div 8

\* The byte sums up to 2000000 for which (sum * 8) / 1000000 is a decimal
\* tie whose nearest double lies below the tie, so that toFixed(1) rounds
\* it down; at every other tie the double lies above and is rounded up.
TieBelow ==
    { 18750, 43750, 106250, 118750, 143750, 181250, 206250, 243750,
      256250, 268750, 318750, 331250, 381250, 393750, 443750, 456250,
      506250, 543750, 568750, 606250, 631250, 668750, 693750, 731250,
      756250, 793750, 818750, 856250, 881250, 918750, 943750, 981250,
      1043750, 1056250, 1106250, 1118750, 1168750, 1181250, 1231250,
      1243750, 1293750, 1306250, 1356250, 1368750, 1418750, 1431250,
      1481250, 1493750, 1543750, 1556250, 1606250, 1618750, 1668750,
      1681250, 1731250, 1743750, 1793750, 1806250, 1856250, 1868750,
      1918750, 1931250, 1981250, 1993750 }

\* parseFloat(((sum * 8) / 1000000).toFixed(1)) in tenths, sum in bytes.
Mbps(sum) ==
    IF sum \in TieBelow
    THEN (8 * sum) \div 100000
    ELSE (8 * sum + 50000) \div 100000

\* fsSize.reduce((prev, current) => (prev.size > current.size) ? prev : current)
\* on the first n volumes, n >= 1: without an initial value the fold starts
\* from the first volume.
RECURSIVE LargestOf(_, _)
LargestOf(fs, n) ==
    IF n = 1 THEN fs[1]
    ELSE LET prev == LargestOf(fs, n - 1)
             current == fs[n]
         IN  IF prev.size > current.size THEN prev ELSE current

\* The same fold keeping the earlier volume when the sizes are equal.
RECURSIVE FirstLargestOf(_, _)
FirstLargestOf(fs, n) ==
    IF n = 1 THEN fs[1]
    ELSE LET prev == FirstLargestOf(fs, n - 1)
             current == fs[n]
         IN  IF prev.size >= current.size THEN prev ELSE current

MainDriveKeepsFirst(fs) ==
    IF Len(fs) > 0 THEN FirstLargestOf(fs, Len(fs)) ELSE [used |-> 0, size |-> 0]

\* mainDrive.
MainDrive(fs) ==
    IF Len(fs) > 0 THEN LargestOf(fs, Len(fs)) ELSE [used |-> 0, size |-> 0]

\* The used space of all volumes together.
RECURSIVE UsedOfAll(_, _)
UsedOfAll(fs, n) == IF n = 0 THEN 0 ELSE UsedOfAll(fs, n - 1) + fs[n].used

StorageUsedSummed(fs) == GiBTenths(UsedOfAll(fs, Len(fs)))

\* stats.storageUsed and stats.storageTotal.
StorageUsed(fs) == GiBTenths(MainDrive(fs).used)
StorageTotal(fs) == GiBTenths(MainDrive(fs).size)

\* networkStats.reduce((acc, iface) => acc + (iface[field] || 0), 0) on the
\* first n interfaces.
RECURSIVE SumSec(_, _, _)
SumSec(net, field, n) ==
    IF n = 0 THEN 0
    ELSE SumSec(net, field, n - 1) + OrElse(net[n][field], 0)

\* Only the first interface is counted.
NetRxSecFirstOnly(net) == IF Len(net) = 0 THEN 0 ELSE OrElse(net[1]["rx_sec"], 0)

\* netRxSec and netTxSec.
NetRxSec(net) == SumSec(net, "rx_sec", Len(net))
NetTxSec(net) == SumSec(net, "tx_sec", Len(net))

\* A fallback of -1 in place of 0.
CpuTempMinusOne(main) == OrElse(main, 0 - 1)

\* stats.cpuTemp.
CpuTemp(main) == OrElse(main, 0)

\* The stats payload.
StatsOf(r) ==
    [ cpuUsage     |-> ToFixed1(r.load),
      cpuTemp      |-> CpuTemp(r.temp),
      memoryUsed   |-> GiBTenths(r.mem.active),
      memoryTotal  |-> GiBTenths(r.mem.total),
      storageUsed  |-> StorageUsed(r.fs),
      storageTotal |-> StorageTotal(r.fs),
      networkDown  |-> Mbps(NetRxSec(r.net)),
      networkUp    |-> Mbps(NetTxSec(r.net)),
      uptime       |-> r.uptime ]

\* Insertion of p into a list sorted by descending cpu, before the entries
\* of equal cpu.
RECURSIVE InsertBeforeEqual(_, _)
InsertBeforeEqual(sorted, p) ==
    IF sorted = <<>> THEN <<p>>
    ELSE IF Head(sorted).cpu > p.cpu
         THEN <<Head(sorted)>> \o InsertBeforeEqual(Tail(sorted), p)
         ELSE <<p>> \o sorted

\* Insertion of p into a list sorted by descending cpu, behind every entry
\* the comparator (a, b) => b.cpu - a.cpu does not put after p.
RECURSIVE InsertStable(_, _)
InsertStable(sorted, p) ==
    IF sorted = <<>> THEN <<p>>
    ELSE IF Head(sorted).cpu - p.cpu >= 0
         THEN <<Head(sorted)>> \o InsertStable(Tail(sorted), p)
         ELSE <<p>> \o sorted

RECURSIVE SortUnstable(_, _)
SortUnstable(list, n) ==
    IF n = 0 THEN <<>> ELSE InsertBeforeEqual(SortUnstable(list, n - 1), list[n])

SortByCpuUnstable(list) == SortUnstable(list, Len(list))

\* list.sort((a, b) => b.cpu - a.cpu) on the first n processes; the sort of
\* an array is stable.
RECURSIVE SortStable(_, _)
SortStable(list, n) ==
    IF n = 0 THEN <<>> ELSE InsertStable(SortStable(list, n - 1), list[n])

SortByCpu(list) == SortStable(list, Len(list))

\* .slice(0, 5)
Slice(list) == SubSeq(list, 1, IF Len(list) < TopN THEN Len(list) ELSE TopN)

\* One entry of the processes payload.
ProcessOf(p) ==
    [ pid    |-> p.pid,
      name   |-> p.name,
      user   |-> p.user,
      cpu    |-> ToFixed1(p.cpu),
      mem    |-> ToFixed1(p.mem),
      status |-> IF p.state = "sleeping" THEN "Sleeping" ELSE "Running" ]

\* topProcesses.
TopProcesses(list) ==
    LET top == Slice(SortByCpu(list))
    IN  [i \in 1..Len(top) |-> ProcessOf(top[i])]

\* An interface is taken whether internal or not.
MainInterfaceAnyIp4(nics) ==
    IF nics.array /\ \E i \in 1..Len(nics.list) : nics.list[i].ip4 # ""
    THEN CHOOSE i \in 1..Len(nics.list) :
            /\ nics.list[i].ip4 # ""
            /\ \A j \in 1..(i - 1) : nics.list[j].ip4 = ""
    ELSE 0

\* mainInterface, as its position in the list; 0 when find returns nothing
\* or the value is not an array.
MainInterface(nics) ==
    LET match(i) == ~nics.list[i].internal /\ nics.list[i].ip4 # ""
    IN  IF nics.array /\ \E i \in 1..Len(nics.list) : match(i)
        THEN CHOOSE i \in 1..Len(nics.list) :
                match(i) /\ \A j \in 1..(i - 1) : ~match(j)
        ELSE 0

\* The vm-info payload.
VmInfoOf(r) ==
    LET i == MainInterface(r.nics)
    IN  [ instanceId |-> r.osInfo.hostname,
          status     |-> "Online",
          region     |-> "Local",
          ip         |-> IF i = 0 \/ r.nics.list[i].ip4 = ""
                         THEN "127.0.0.1" ELSE r.nics.list[i].ip4,
          os         |-> r.osInfo.distro \o " " \o r.osInfo.release,
          kernel     |-> r.osInfo.kernel ]

\* ------------------------------------------------ the values of the sources
\* Sequences over S of length at most n.
SeqUpTo(S, n) == UNION {[1..m -> S] : m \in 0..n}

Volumes == [used : {154, 1000, 6000}, size : {1000, 5120}]
Ifaces ==
    [ rx_sec : {Undefined, Null, Num(18750), Num(250000), Num(500000)},
      tx_sec : {Undefined, Num(0), Num(6250), Num(250000)} ]
Nics == [internal : BOOLEAN, ip4 : {"", "10.0.0.1", "10.0.0.2"}]
States == <<"sleeping", "running", "stopped">>

\* The process list with the cpu figures c, in sixteenths of a percent: the
\* process at position i has pid i.
ProcList(c) ==
    [i \in 1..Len(c) |->
        [ pid   |-> i,
          name  |-> "node",
          user  |-> "root",
          cpu   |-> c[i],
          mem   |-> 3 * i,
          state |-> States[(i % 3) + 1] ]]

\* What the six queries of a cycle and si.time() return when every query
\* resolves: one typical result, and each category varied on its own.
BaseCycle ==
    [ kind   |-> "cycle",
      load   |-> 200,
      temp   |-> Num(45),
      mem    |-> [active |-> 1000, total |-> 5120],
      fs     |-> <<[used |-> 1000, size |-> 5120]>>,
      net    |-> <<[rx_sec |-> Num(250000), tx_sec |-> Num(250000)]>>,
      procs  |-> ProcList(<<24, 2>>),
      uptime |-> 3600 ]

CycleInputs ==
    {[BaseCycle EXCEPT !.load = x] : x \in {0, 1, 4, 12, 1600}}
    \cup {[BaseCycle EXCEPT !.temp = x] :
            x \in {Undefined, Null, NaN, Num(0), Num(45), Num(0 - 5)}}
    \cup {[BaseCycle EXCEPT !.mem = x] :
            x \in [active : {154, 1000, 6000}, total : {1000, 5120}]}
    \cup {[BaseCycle EXCEPT !.fs = x] : x \in SeqUpTo(Volumes, MaxVolumes)}
    \cup {[BaseCycle EXCEPT !.net = x] : x \in SeqUpTo(Ifaces, MaxIfaces)}
    \cup {[BaseCycle EXCEPT !.procs = ProcList(c)] :
            c \in SeqUpTo({1, 2, 24}, MaxProcs)}

\* What the two queries of a connection handler return when both resolve;
\* networkInterfaces() may resolve with a value that is not an array.
IdentityInputs ==
    [ kind   : {"identity"},
      osInfo : {[hostname |-> "vm-1", distro |-> "Ubuntu",
                 release |-> "22.04", kernel |-> "5.15.0"]},
      nics   : {[array |-> FALSE, list |-> <<>>]}
               \cup [array : {TRUE}, list : SeqUpTo(Nics, MaxNics)] ]

InitAgg ==
    /\ timerOn = TRUE
    /\ ticks = 0
    /\ res = [k \in Ticks |-> [q \in StatQ |-> "none"]]
    /\ cyc = [k \in Ticks |-> "idle"]
    /\ reason = [k \in Ticks |-> "none"]
    /\ nconn = 0
    /\ conn = [s \in Sockets |-> "new"]
    /\ hpc = [s \in Sockets |-> "idle"]
    /\ idres = [s \in Sockets |-> [q \in IdQ |-> "none"]]
    /\ sentTo = [s \in Sockets |-> <<>>]
    /\ \/ raw \in CycleInputs
       \/ raw \in IdentityInputs
    /\ snap = [kind |-> "none"]

\* The callback of the timer from the resumption after the await to the two
\* emits, on the values the queries resolved with.
Aggregate ==
    /\ raw.kind = "cycle"
    /\ snap.kind = "none"
    /\ snap' = [ kind      |-> "published",
                 stats     |-> StatsOf(raw),
                 processes |-> TopProcesses(raw.procs) ]
    /\ UNCHANGED <<cycVars, sockVars, sentTo, raw>>

\* The connection handler from the resumption after the await to the emit.
Identify ==
    /\ raw.kind = "identity"
    /\ snap.kind = "none"
    /\ snap' = [kind |-> "vm-info", info |-> VmInfoOf(raw)]
    /\ UNCHANGED <<cycVars, sockVars, sentTo, raw>>

NextAgg ==
    \/ Aggregate
    \/ Identify

SpecAgg == InitAgg /\ [][NextAgg]_vars

\* ------------------------------------------------- vocabulary of the claims
Has(seq, e) == \E i \in 1..Len(seq) : seq[i] = e
Count(seq, e) == Cardinality({i \in 1..Len(seq) : seq[i] = e})
Periodic == {"stats", "processes"}
\* Cycle k has run to its end and all of its queries have settled.
Settled(k) == cyc[k] # "idle" /\ Pending(res[k]) = {}
\* The step in which cycle k publishes.
PublishStep(k) == cyc[k] # "published" /\ cyc'[k] = "published"
\* The events a step appends to sentTo[s] (sentTo only ever grows).
Added(s) == SubSeq(sentTo'[s], Len(sentTo[s]) + 1, Len(sentTo'[s]))

\* C1: in every cycle in which exactly one of currentLoad, cpuTemperature,
\* mem, fsSize, networkStats rejects while processes (and the rest) resolve,
\* the cycle still publishes 'stats' and 'processes'.
C1_PartialFailureStillPublishes ==
    \A k \in Ticks :
        ( /\ Settled(k)
          /\ res[k]["processes"] = "ok"
          /\ Cardinality(Failed(res[k])) = 1 )
        => /\ cyc[k] = "published"
           /\ \A s \in Sockets : Has(sentTo[s], Stats(k)) <=> Has(sentTo[s], Processes(k))

\* C2: a cycle whose processes() query rejected is never published: no socket
\* was sent its 'stats' or 'processes' event, and the timer stays armed so the
\* next tick is issued.
C2_ProcessesRejectSkipsCycle ==
    \A k \in Ticks :
        res[k]["processes"] = "fail"
        => /\ cyc[k] = "skipped"
           /\ \A s \in Sockets : ~Has(sentTo[s], Stats(k)) /\ ~Has(sentTo[s], Processes(k))
           /\ timerOn
           /\ (ticks < MaxTicks /\ Cardinality(InFlight) < MaxInFlight => ENABLED Tick)

\* A cycle was skipped because processes() rejected while a subscriber was
\* connected, and the next tick has fired.
C2_Witness ==
    \E k \in Ticks :
        /\ res[k]["processes"] = "fail"
        /\ cyc[k] = "skipped"
        /\ ticks > k
        /\ \E s \in Sockets : conn[s] = "open"

\* C3: skipped cycles never stop the scheduler: the timer is armed in every
\* reachable state, a tick can fire whenever the explored bounds allow one,
\* and every cycle whose queries all resolved has published, whatever
\* happened to the cycles before it.
C3_SchedulerSurvivesFailures ==
    /\ timerOn
    /\ (ticks < MaxTicks /\ Cardinality(InFlight) < MaxInFlight => ENABLED Tick)
    /\ \A k \in Ticks :
        (Settled(k) /\ Failed(res[k]) = {}) => cyc[k] = "published"

\* A skipped cycle is followed by a later tick that published.
C3_Witness ==
    \E j, k \in Ticks :
        /\ j < k
        /\ cyc[j] = "skipped"
        /\ cyc[k] = "published"
        /\ \E s \in Sockets : Has(sentTo[s], Stats(k))

\* C4: every connection whose identity query succeeded was sent exactly one
\* 'vm-info' event, and no socket was ever sent a 'vm-info' that is not its
\* own: the number of 'vm-info' events sent to a socket is 1 once its own
\* handler has emitted and 0 otherwise, also after later ticks.
C4_ExactlyOneVmInfo ==
    \A s \in Sockets :
        Count(sentTo[s], VmInfo) =
            IF hpc[s] = "done" /\ PromiseAll(idres[s]) = "fulfilled" THEN 1 ELSE 0

\* Two sockets are connected; the first has its one 'vm-info' followed by a
\* published tick, the second has not been answered yet.
C4_Witness ==
    /\ conn[1] = "open" /\ conn[2] = "open"
    /\ hpc[1] = "done" /\ hpc[2] = "await"
    /\ Count(sentTo[1], VmInfo) = 1
    /\ sentTo[1][1] = VmInfo
    /\ \E k \in Ticks : Has(sentTo[1], Stats(k)) /\ Has(sentTo[2], Stats(k))

\* C5: no replay.  A step sends a periodic event of tick k only when that
\* step publishes tick k, and never to a socket that has not joined before
\* the step: what a subscriber holds was published after its join.
C5_NoReplay ==
    [][\A s \in Sockets : \A i \in 1..Len(Added(s)) :
          Added(s)[i].ev \in Periodic
          => /\ conn[s] # "new"
             /\ PublishStep(Added(s)[i].tick)]_vars

\* A connected subscriber that joined after one publish holds the later
\* publish and not the earlier one.
C5_Witness ==
    \E s \in Sockets : \E j, k \in Ticks :
        /\ conn[s] = "open"
        /\ cyc[j] = "published" /\ ~Has(sentTo[s], Stats(j))
        /\ cyc[k] = "published" /\ Has(sentTo[s], Stats(k))

\* C6: a subscriber whose identity query succeeded receives 'vm-info' before
\* any 'stats' or 'processes' event.
C6_VmInfoFirst ==
    \A s \in Sockets :
        Has(sentTo[s], VmInfo) => sentTo[s][1] = VmInfo

\* C7: a subscriber whose identity query failed is sent no 'vm-info', the
\* failure leaves it connected, and every publish made while it is connected
\* is sent to it.
C7_IdentityFailureKeepsSubscription ==
    /\ [](\A s \in Sockets :
            PromiseAll(idres[s]) = "rejected" => ~Has(sentTo[s], VmInfo))
    /\ [][\A s \in Sockets :
            /\ (hpc[s] = "await" /\ hpc'[s] = "done") => conn'[s] = conn[s]
            /\ \A k \in Ticks :
                (PublishStep(k) /\ conn[s] = "open" /\ PromiseAll(idres[s]) = "rejected")
                => Added(s) = <<Stats(k), Processes(k)>>]_vars

\* A connection whose identity query was rejected is still open, its handler
\* has finished, and it holds the events of a publish and no 'vm-info'.
C7_Witness ==
    \E s \in Sockets : \E k \in Ticks :
        /\ PromiseAll(idres[s]) = "rejected"
        /\ hpc[s] = "done"
        /\ conn[s] = "open"
        /\ sentTo[s] = <<Stats(k), Processes(k)>>

\* C8: a publish is sent, with the same two events, to exactly the sockets
\* connected at that moment, and no socket is sent the 'stats' or the
\* 'processes' event of a tick twice.
C8_PublishToConnectedOnce ==
    /\ [](\A s \in Sockets : \A k \in Ticks :
            Count(sentTo[s], Stats(k)) <= 1 /\ Count(sentTo[s], Processes(k)) <= 1)
    /\ [][\A k \in Ticks : PublishStep(k) =>
            \A s \in Sockets :
                Added(s) = IF conn[s] = "open"
                           THEN <<Stats(k), Processes(k)>>
                           ELSE <<>>]_vars

\* A publish reached the connected socket, whose handler was still waiting,
\* and not the one that had left.
C8_Witness ==
    \E k \in Ticks :
        /\ cyc[k] = "published"
        /\ conn[1] = "closed" /\ ~Has(sentTo[1], Stats(k))
        /\ conn[2] = "open" /\ hpc[2] = "await"
        /\ Count(sentTo[2], Stats(k)) = 1 /\ Count(sentTo[2], Processes(k)) = 1

\* C9: once a socket has disconnected no event is emitted to it any more,
\* also when its identity query was in flight at the disconnect.
C9_NothingAfterDisconnect ==
    [][\A s \in Sockets : conn[s] = "closed" => sentTo'[s] = sentTo[s]]_vars

\* C10: join, leave and identity-query steps leave the timer and every cycle
\* as they were, and they never disable the timer or a pending cycle: a tick
\* can fire whenever the explored bounds allow one and a cycle with pending
\* queries can settle, whatever the sockets and their handlers are doing.
C10_SubscribersDoNotTouchScheduler ==
    /\ [][(nconn' # nconn \/ conn' # conn \/ hpc' # hpc \/ idres' # idres)
            => UNCHANGED <<timerOn, ticks, res, cyc, reason>>]_vars
    /\ [](ticks < MaxTicks /\ Cardinality(InFlight) < MaxInFlight => ENABLED Tick)
    /\ [](\A k \in Ticks : cyc[k] = "await" =>
            ENABLED Settle(k, [q \in Pending(res[k]) |-> "ok"]))

\* A publish has reached a socket whose identity query is still pending;
\* another socket was sent its 'vm-info' after that publish, and a cycle is
\* in flight.
C10_Witness ==
    \E s, t \in Sockets : \E j, k \in Ticks :
        /\ hpc[s] = "await" /\ conn[s] = "open" /\ Has(sentTo[s], Stats(j))
        /\ cyc[k] = "await" /\ conn[t] = "open"
        /\ sentTo[t] = <<Stats(j), Processes(j), VmInfo>>

\* C11: a cycle waits for every one of its queries: it has not published and
\* has not been concluded as skipped while one of its queries is pending.
C11_ConcludesOnlyWhenAllSettled ==
    \A k \in Ticks :
        cyc[k] \in {"published", "skipped"} => Pending(res[k]) = {}

\* The sum of the numbers the interfaces of net report for field, over the
\* set I of positions.
RECURSIVE Reported(_, _, _)
Reported(net, field, I) ==
    IF I = {} THEN 0
    ELSE LET i == CHOOSE j \in I : TRUE
         IN  net[i][field].v + Reported(net, field, I \ {i})

\* The positions of net that report a number for field.
Reporting(net, field) == {i \in 1..Len(net) : net[i][field].t = "number"}

\* t tenths of a megabit per second is 8 * bytes / 1000000 rounded to one
\* decimal.
RoundedMbps(t, bytes) ==
    /\ 100000 * t - 8 * bytes <= 50000
    /\ 8 * bytes - 100000 * t <= 50000

\* The positions of the volumes of fs that no volume exceeds in size.
Largest(fs) == {i \in 1..Len(fs) : \A j \in 1..Len(fs) : fs[j].size <= fs[i].size}

\* C12: the published process list has at most 5 entries and its cpu
\* figures never increase from one entry to the next; it is the first 5
\* entries of the source list sorted by descending cpu with entries of equal
\* cpu in their source order (a process's pid is its source position).
C12_TopFiveStableDescending ==
    snap.kind = "published" =>
        LET src == raw.procs
            out == snap.processes
            Source(i) == src[out[i].pid]
            Before(p, q) == p.cpu > q.cpu \/ (p.cpu = q.cpu /\ p.pid < q.pid)
        IN  /\ Len(out) = IF Len(src) < 5 THEN Len(src) ELSE 5
            /\ \A i \in 1..Len(out) : out[i].pid \in 1..Len(src)
            /\ \A i \in 1..(Len(out) - 1) :
                  /\ out[i].cpu >= out[i + 1].cpu
                  /\ Before(Source(i), Source(i + 1))
            /\ \A j \in 1..Len(src) :
                  (\A i \in 1..Len(out) : out[i].pid # j)
                      => \A i \in 1..Len(out) : Before(Source(i), src[j])

\* Six processes, two at 1.5 percent and four at 0.125 percent: the list
\* published is the two, then the first three of the four.
C12_Witness ==
    /\ snap.kind = "published"
    /\ Len(raw.procs) = 6
    /\ [i \in 1..Len(snap.processes) |-> snap.processes[i].pid] = <<2, 5, 1, 3, 4>>
    /\ [i \in 1..Len(snap.processes) |-> snap.processes[i].cpu] = <<15, 15, 1, 1, 1>>

\* C13 as stated: the storage figures are those of one volume, the first in
\* source order among the volumes of the largest size, and 0 and 0 when no
\* volume is reported.
C13_FirstOfTheLargest ==
    snap.kind = "published" =>
        IF raw.fs = <<>>
        THEN snap.stats.storageUsed = 0 /\ snap.stats.storageTotal = 0
        ELSE LET first == CHOOSE i \in Largest(raw.fs) :
                              \A j \in Largest(raw.fs) : i <= j
             IN  /\ snap.stats.storageUsed = GiBTenths(raw.fs[first].used)
                 /\ snap.stats.storageTotal = GiBTenths(raw.fs[first].size)

\* C13 amended: the storage figures are those of one volume, the last in
\* source order among the volumes of the largest size, and 0 and 0 when no
\* volume is reported; the cycle publishes in both cases.
C13_LastOfTheLargest ==
    /\ (raw.kind = "cycle" /\ raw.fs = <<>>)
        => snap.kind = "published" \/ ENABLED Aggregate
    /\ snap.kind = "published" =>
        IF raw.fs = <<>>
        THEN snap.stats.storageUsed = 0 /\ snap.stats.storageTotal = 0
        ELSE LET last == CHOOSE i \in Largest(raw.fs) :
                             \A j \in Largest(raw.fs) : j <= i
             IN  /\ snap.stats.storageUsed = GiBTenths(raw.fs[last].used)
                 /\ snap.stats.storageTotal = GiBTenths(raw.fs[last].size)

\* Two volumes of 5 GiB, the first with 154 MiB used and the second with
\* 1000 MiB used: 1.0 of 5.0 is published.
C13_Witness ==
    /\ snap.kind = "published"
    /\ raw.fs = <<[used |-> 154, size |-> 5120], [used |-> 1000, size |-> 5120]>>
    /\ snap.stats.storageUsed = 10
    /\ snap.stats.storageTotal = 50

\* C14: when the source reports no more active than total memory and, for
\* each volume, no more used than size, the published snapshot has
\* memoryUsed <= memoryTotal and storageUsed <= storageTotal.
C14_UsedWithinTotal ==
    (/\ snap.kind = "published"
     /\ raw.mem.active <= raw.mem.total
     /\ \A i \in 1..Len(raw.fs) : raw.fs[i].used <= raw.fs[i].size)
        => /\ snap.stats.memoryUsed <= snap.stats.memoryTotal
           /\ snap.stats.storageUsed <= snap.stats.storageTotal

\* Three full volumes of 1000 MiB: 1.0 of 1.0 is published.
C14_Witness ==
    /\ snap.kind = "published"
    /\ raw.fs = [i \in 1..3 |-> [used |-> 1000, size |-> 1000]]
    /\ snap.stats.storageUsed = 10
    /\ snap.stats.storageTotal = 10
    /\ snap.stats.memoryUsed < snap.stats.memoryTotal

\* C15: when cpuTemperature() resolves without a main value the cycle
\* publishes and the snapshot's cpuTemp is 0; when main is a number cpuTemp
\* is that number.
C15_CpuTempFallback ==
    /\ (raw.kind = "cycle" /\ raw.temp.t \in {"undefined", "null"})
        => \/ snap.kind = "none" /\ ENABLED Aggregate
           \/ snap.kind = "published" /\ snap.stats.cpuTemp = 0
    /\ (snap.kind = "published" /\ raw.temp.t = "number")
        => snap.stats.cpuTemp = raw.temp.v

\* A cycle whose temperature has no main value has published.
C15_Witness ==
    /\ snap.kind = "published"
    /\ raw.temp = Undefined
    /\ snap.stats.cpuTemp = 0
    /\ Len(snap.processes) = 2

\* C16: networkDown and networkUp are 8 / 1000000 of the sum of the rx_sec,
\* respectively tx_sec, that the interfaces report, an interface without a
\* value adding nothing, rounded to one decimal; rx_sec of 500000 and 250000
\* give 6.0, and no interface gives 0.
C16_NetworkTotals ==
    snap.kind = "published" =>
        LET net == raw.net
            rx == Reported(net, "rx_sec", Reporting(net, "rx_sec"))
            tx == Reported(net, "tx_sec", Reporting(net, "tx_sec"))
        IN  /\ RoundedMbps(snap.stats.networkDown, rx)
            /\ RoundedMbps(snap.stats.networkUp, tx)
            /\ (Len(net) = 2 /\ net[1].rx_sec = Num(500000)
                             /\ net[2].rx_sec = Num(250000))
                  => snap.stats.networkDown = 60
            /\ net = <<>>
                  => snap.stats.networkDown = 0 /\ snap.stats.networkUp = 0

\* Two interfaces receiving 500000 and 250000 bytes per second, the first
\* without a tx_sec and the second sending 6250: 6.0 down and 0.1 up.
C16_Witness ==
    /\ snap.kind = "published"
    /\ raw.net = <<[rx_sec |-> Num(500000), tx_sec |-> Undefined],
                   [rx_sec |-> Num(250000), tx_sec |-> Num(6250)]>>
    /\ snap.stats.networkDown = 60
    /\ snap.stats.networkUp = 1

\* C17: the ip of a vm-info payload is the ip4 of the first interface in
\* source order that is not internal and has an IPv4 address, and
\* "127.0.0.1" when there is no such interface.
C17_FirstExternalIp4 ==
    snap.kind = "vm-info" =>
        LET list == raw.nics.list
            Has4(i) == ~list[i].internal /\ list[i].ip4 # ""
        IN  IF \E i \in 1..Len(list) : Has4(i)
            THEN \E i \in 1..Len(list) :
                    /\ Has4(i)
                    /\ \A j \in 1..(i - 1) : ~Has4(j)
                    /\ snap.info.ip = list[i].ip4
            ELSE snap.info.ip = "127.0.0.1"

\* An internal interface with an address, an external one without, and an
\* external one with an address: the address of the third is sent.
C17_Witness ==
    /\ snap.kind = "vm-info"
    /\ raw.nics.list = <<[internal |-> TRUE, ip4 |-> "10.0.0.1"],
                         [internal |-> FALSE, ip4 |-> ""],
                         [internal |-> FALSE, ip4 |-> "10.0.0.2"]>>
    /\ snap.info.ip = "10.0.0.2"
    /\ snap.info.os = "Ubuntu 22.04"

\* C18: 'stats' and 'processes' of a tick are an atomic pair: in what a
\* socket was sent, every 'stats' is immediately followed by the 'processes'
\* of the same tick and every 'processes' immediately preceded by its
\* 'stats', so no other event lies between them and a socket holds both or
\* neither.
C18_StatsProcessesPair ==
    \A s \in Sockets : \A i \in 1..Len(sentTo[s]) :
        /\ sentTo[s][i].ev = "stats"
            => /\ i < Len(sentTo[s])
               /\ sentTo[s][i + 1] = Processes(sentTo[s][i].tick)
        /\ sentTo[s][i].ev = "processes"
            => /\ i > 1
               /\ sentTo[s][i - 1] = Stats(sentTo[s][i].tick)

\* The first socket holds the pairs of two ticks; the second joined between
\* the two publishes and was answered between them too.
C18_Witness ==
    \E j, k \in Ticks :
        /\ j # k
        /\ sentTo[1] = <<VmInfo, Stats(j), Processes(j), Stats(k), Processes(k)>>
        /\ sentTo[2] = <<VmInfo, Stats(k), Processes(k)>>

\* C19: snapshots are published in tick order: what a socket was sent never
\* holds the 'stats' of a later tick ahead of the 'stats' of an earlier one.
C19_PublishedInTickOrder ==
    \A s \in Sockets : \A i, j \in 1..Len(sentTo[s]) :
        (i < j /\ sentTo[s][i].ev = "stats" /\ sentTo[s][j].ev = "stats")
        => sentTo[s][i].tick < sentTo[s][j].tick

\* C20: no cycle is cancelled.  A tick leaves every earlier cycle as it is,
\* an outcome once reached is final, a cycle's events are sent at most once,
\* and, every query settling eventually, every cycle that is waiting reaches
\* published or skipped.
C20_NoCycleCancelled ==
    /\ [][\A k \in Ticks :
            /\ (ticks' # ticks /\ k <= ticks)
                => (cyc'[k] = cyc[k] /\ res'[k] = res[k] /\ reason'[k] = reason[k])
            /\ cyc[k] \in {"published", "skipped"} => cyc'[k] = cyc[k]]_vars
    /\ [](\A k \in Ticks : cyc[k] \in {"idle", "await", "published", "skipped"})
    /\ [](\A k \in Ticks : \A s \in Sockets : Count(sentTo[s], Stats(k)) <= 1)
    /\ \A k \in Ticks : (cyc[k] = "await") ~> (cyc[k] \in {"published", "skipped"})

\* The second tick fired and published while the first cycle was waiting;
\* the first cycle then published too.
C20_Witness ==
    \E s \in Sockets :
        /\ MaxTicks >= 2
        /\ sentTo[s] = <<Stats(2), Processes(2), Stats(1), Processes(1)>>
        /\ cyc[1] = "published" /\ cyc[2] = "published"

TypeOK ==
    /\ timerOn \in BOOLEAN
    /\ ticks \in 0..MaxTicks
    /\ nconn \in 0..MaxSockets
    /\ \A k \in Ticks : cyc[k] \in {"idle", "await", "published", "skipped"}
    /\ \A s \in Sockets : conn[s] \in {"new", "open", "closed"}
    /\ \A s \in Sockets : hpc[s] \in {"idle", "await", "done"}
====
